---- MODULE Spec2Model ----
(***************************************************************************)
(* The document structurer of image-extractor-fixed.py: save_as_docx and   *)
(* save_as_excel, run one after the other by main on the same extracted    *)
(* text.  A string is a sequence of Unicode code points (Naturals), so     *)
(* that lower(), strip(), split(), substring search and the numeric-token  *)
(* regex are computed character by character as Python computes them.     *)
(***************************************************************************)
EXTENDS Naturals, Sequences, FiniteSets

\* Most lines of an input text.
MaxLines == 3

\* The keyword list of the financial-document test (the same list in both writers).
financial_keywords ==
    << <<105, 110, 118, 111, 105, 99, 101>>,   \* invoice
       <<98, 105, 108, 108>>,   \* bill
       <<114, 101, 99, 101, 105, 112, 116>>,   \* receipt
       <<115, 116, 97, 116, 101, 109, 101, 110, 116>>,   \* statement
       <<112, 117, 114, 99, 104, 97, 115, 101, 32, 111, 114, 100, 101, 114>>,   \* purchase order
       <<112, 111>>,   \* po
       <<108, 101, 100, 103, 101, 114>>,   \* ledger
       <<1601, 1575, 1578, 1608, 1585, 1577>>,   \* (Arabic)
       <<1581, 1587, 1575, 1576>>,   \* (Arabic)
       <<1573, 1610, 1589, 1575, 1604>>,   \* (Arabic)
       <<1571, 1605, 1585, 32, 1588, 1585, 1575, 1569>>,   \* (Arabic)
       <<1583, 1601, 1578, 1585, 32, 1575, 1604, 1571, 1587, 1578, 1575, 1584>> >>   \* (Arabic)
\* Alternatives of the item-indicator regex; re.search of an alternation of
\* literals succeeds iff one literal occurs in the line.
item_pattern ==
    { <<1575, 1604, 1576, 1610, 1575, 1606>>,   \* (Arabic)
      <<105, 116, 101, 109>>,   \* Alternatives of the item-indicator regex; re.search of an alternation of
\* literals succeeds iff one literal occurs in the line.
      <<100, 101, 115, 99, 114, 105, 112, 116, 105, 111, 110>>,   \* description
      <<113, 116, 121>>,   \* qty
      <<113, 117, 97, 110, 116, 105, 116, 121>>,   \* quantity
      <<1587, 1593, 1585>>,   \* (Arabic)
      <<112, 114, 105, 99, 101>>,   \* price
      <<97, 109, 111, 117, 110, 116>>,   \* amount
      <<1575, 1604, 1605, 1576, 1604, 1594>> }   \* (Arabic)
\* Alternatives of the total-indicator regex.
total_pattern ==
    { <<116, 111, 116, 97, 108>>,   \* Alternatives of the total-indicator regex.
      <<115, 117, 98, 116, 111, 116, 97, 108>>,   \* subtotal
      <<1575, 1604, 1605, 1580, 1605, 1608, 1593>>,   \* (Arabic)
      <<1575, 1604, 1573, 1580, 1605, 1575, 1604, 1610>>,   \* (Arabic)
      <<118, 97, 116>>,   \* vat
      <<1590, 1585, 1610, 1576, 1577>>,   \* (Arabic)
      <<116, 97, 120>> }   \* tax
\* Alternatives of the document-writer's column-header regex.
header_pattern ==
    { <<100, 101, 115, 99, 114, 105, 112, 116, 105, 111, 110>>,   \* description
      <<113, 116, 121>>,   \* qty
      <<112, 114, 105, 99, 101>>,   \* price
      <<97, 109, 111, 117, 110, 116>>,   \* amount
      <<1575, 1604, 1576, 1610, 1575, 1606>>,   \* (Arabic)
      <<1575, 1604, 1603, 1605, 1610, 1577>>,   \* (Arabic)
      <<1575, 1604, 1587, 1593, 1585>>,   \* (Arabic)
      <<1575, 1604, 1605, 1576, 1604, 1594>> }   \* (Arabic)
\* column_indicators (document-writer) and potential_columns (spreadsheet-writer):
\* the same twelve words in the same order.
column_indicators ==
    << <<105, 116, 101, 109>>,   \* Alternatives of the item-indicator regex; re.search of an alternation of
\* literals succeeds iff one literal occurs in the line.
       <<100, 101, 115, 99, 114, 105, 112, 116, 105, 111, 110>>,   \* description
       <<113, 116, 121>>,   \* qty
       <<113, 117, 97, 110, 116, 105, 116, 121>>,   \* quantity
       <<112, 114, 105, 99, 101>>,   \* price
       <<97, 109, 111, 117, 110, 116>>,   \* amount
       <<116, 111, 116, 97, 108>>,   \* Alternatives of the total-indicator regex.
       <<1575, 1604, 1576, 1610, 1575, 1606>>,   \* (Arabic)
       <<1575, 1604, 1608, 1589, 1601>>,   \* (Arabic)
       <<1575, 1604, 1603, 1605, 1610, 1577>>,   \* (Arabic)
       <<1575, 1604, 1587, 1593, 1585>>,   \* (Arabic)
       <<1575, 1604, 1605, 1576, 1604, 1594>> >>   \* (Arabic)
\* The ordered words the document-writer turns into header labels.
header_indicators ==
    << <<100, 101, 115, 99, 114, 105, 112, 116, 105, 111, 110>>,   \* description
       <<113, 116, 121>>,   \* qty
       <<112, 114, 105, 99, 101>>,   \* price
       <<97, 109, 111, 117, 110, 116>> >>   \* amount
\* The spreadsheet-writer's labels when no potential column is found.
default_columns ==
    << <<68, 101, 115, 99, 114, 105, 112, 116, 105, 111, 110>>,   \* Description
       <<81, 117, 97, 110, 116, 105, 116, 121>>,   \* Quantity
       <<80, 114, 105, 99, 101>>,   \* Price
       <<65, 109, 111, 117, 110, 116>> >>   \* Amount
\* Alternatives of the grand-total (bold) regex of the document-writer.
bold_pattern ==
    { <<116, 111, 116, 97, 108>>,   \* Alternatives of the total-indicator regex.
      <<1575, 1604, 1605, 1580, 1605, 1608, 1593>>,   \* (Arabic)
      <<1575, 1604, 1573, 1580, 1605, 1575, 1604, 1610>> }   \* (Arabic)
preamble_prefix == <<72, 101, 114, 101, 32, 105, 115, 32, 116, 104, 101, 32, 116, 101, 120, 116, 32, 101, 120, 116, 114, 97, 99, 116, 101, 100, 32, 102, 114, 111, 109>>   \* Here is the text extracted from
column_label == <<67, 111, 108, 117, 109, 110, 32>>   \* Column 
LineInvoice == <<73, 110, 118, 111, 105, 99, 101, 58, 32, 65, 58, 55>>   \* Invoice: A:7
LineColumns == <<68, 101, 115, 99, 114, 105, 112, 116, 105, 111, 110, 32, 81, 116, 121, 32, 80, 114, 105, 99, 101, 32, 65, 109, 111, 117, 110, 116>>   \* Description Qty Price Amount
LineWidget == <<87, 105, 100, 103, 101, 116, 32, 65, 32, 51, 32, 49, 48, 46, 53, 48, 32, 51, 49, 46, 53, 48>>   \* Widget A 3 10.50 31.50
LineTotal == <<84, 111, 116, 97, 108, 58, 32, 49, 53, 48, 46, 48, 48, 32, 65, 69, 68>>   \* Total: 150.00 AED
LineCurrency == <<49, 53, 48, 46, 48, 48, 32, 65, 69, 68>>   \* 150.00 AED
LineBlank == <<32>>   \*  
LineBillItem == <<66, 105, 108, 108, 32, 105, 116, 101, 109, 32, 49, 44, 48, 48, 48, 32, 50>>   \* Bill item 1,000 2
LinePrice == <<80, 114, 105, 99, 101>>   \* Price
LinePreamble == <<72, 101, 114, 101, 32, 105, 115, 32, 116, 104, 101, 32, 116, 101, 120, 116, 32, 101, 120, 116, 114, 97, 99, 116, 101, 100, 32, 102, 114, 111, 109, 32, 116, 104, 101, 32, 100, 111, 99, 117, 109, 101, 110, 116, 58>>   \* Here is the text extracted from the document:
LineTax == <<84, 97, 120, 32, 53, 46, 48, 48, 85, 83, 68>>   \* Tax 5.00USD

\* The sample lines an input text is made of.
SampleLines ==
    { LineInvoice, LineColumns, LineWidget, LineTotal, LineCurrency,
      LineBlank, LineBillItem, LinePrice, LinePreamble }

NEWLINE == 10
COLON == 58
COMMA == 44
DOT == 46

\* ---------------------------------------------------------------- strings

\* str.lower(): the texts of the model hold ASCII letters and Arabic letters,
\* and Arabic letters have no case.
Lower(s) == [i \in 1..Len(s) |-> IF s[i] \in 65..90 THEN s[i] + 32 ELSE s[i]]

\* str.capitalize(): the first character upper-cased, the rest lower-cased.
Capitalize(s) ==
    [i \in 1..Len(s) |->
        IF i = 1 THEN (IF s[i] \in 97..122 THEN s[i] - 32 ELSE s[i])
        ELSE (IF s[i] \in 65..90 THEN s[i] + 32 ELSE s[i])]

\* The characters str.strip() removes.
IsSpace(c) == c \in {9, 10, 11, 12, 13, 28, 29, 30, 31, 32, 133, 160}

\* The characters \d matches in a str pattern: ASCII, Arabic-Indic and
\* Extended Arabic-Indic decimal digits.
IsDigit(c) == c \in (48..57) \cup (1632..1641) \cup (1776..1785)

\* str.strip(): without the leading and the trailing whitespace.
RECURSIVE StripLeft(_, _)
StripLeft(s, i) == IF i <= Len(s) /\ IsSpace(s[i]) THEN StripLeft(s, i + 1) ELSE i

RECURSIVE StripRight(_, _)
StripRight(s, i) == IF i >= 1 /\ IsSpace(s[i]) THEN StripRight(s, i - 1) ELSE i

Strip(s) == SubSeq(s, StripLeft(s, 1), StripRight(s, Len(s)))

\* k in s
Contains(s, k) ==
    \E i \in 0..(Len(s) - Len(k)) : \A j \in 1..Len(k) : s[i + j] = k[j]

\* s.startswith(p)
StartsWith(s, p) == Len(p) <= Len(s) /\ SubSeq(s, 1, Len(p)) = p

\* re.search of an alternation of literals
SearchAny(pattern, s) == \E k \in pattern : Contains(s, k)

\* The places of character c in s.
Places(s, c) == {i \in 1..Len(s) : s[i] = c}

First(S) == CHOOSE i \in S : \A j \in S : i <= j

\* text.split('\n'): the lines between the newlines; never an empty list.
RECURSIVE SplitLines(_)
SplitLines(s) ==
    IF Places(s, NEWLINE) = {} THEN <<s>>
    ELSE LET n == First(Places(s, NEWLINE))
         IN  <<SubSeq(s, 1, n - 1)>> \o SplitLines(SubSeq(s, n + 1, Len(s)))

\* line.split(':', 1) of a line that holds a colon: the two parts.
SplitColon(s) ==
    LET n == First(Places(s, COLON))
    IN  <<SubSeq(s, 1, n - 1), SubSeq(s, n + 1, Len(s))>>

\* str(n) of a natural number.
RECURSIVE Str(_)
Str(n) == IF n < 10 THEN <<48 + n>> ELSE Str(n \div 10) \o <<48 + (n % 10)>>

Max(a, b) == IF a >= b THEN a ELSE b

RECURSIVE Join(_)
Join(ls) ==
    IF Len(ls) = 0 THEN <<>>
    ELSE IF Len(ls) = 1 THEN ls[1]
    ELSE ls[1] \o <<NEWLINE>> \o Join(Tail(ls))

\* ------------------------------------------- the numeric-token regex
\* \d+(?:,\d+)*(?:\.\d+)?  Every part is greedy and what follows it is
\* optional, so the first greedy attempt is the match.

\* The place after the longest run of digits starting at i.
RECURSIVE DigitsEnd(_, _)
DigitsEnd(s, i) ==
    IF i <= Len(s) /\ IsDigit(s[i]) THEN DigitsEnd(s, i + 1) ELSE i

\* The place after (?:,\d+)* starting at i.
RECURSIVE GroupsEnd(_, _)
GroupsEnd(s, i) ==
    IF i + 1 <= Len(s) /\ s[i] = COMMA /\ IsDigit(s[i + 1])
    THEN GroupsEnd(s, DigitsEnd(s, i + 1))
    ELSE i

\* The place after (?:\.\d+)? starting at i.
FractionEnd(s, i) ==
    IF i + 1 <= Len(s) /\ s[i] = DOT /\ IsDigit(s[i + 1])
    THEN DigitsEnd(s, i + 1)
    ELSE i

\* The place after the match that starts at the digit s[i].
NumberEnd(s, i) == FractionEnd(s, GroupsEnd(s, DigitsEnd(s, i)))

\* The matches, left to right and not overlapping: <<first, last>> places.
RECURSIVE NumberSpans(_, _)
NumberSpans(s, i) ==
    IF i > Len(s) THEN <<>>
    ELSE IF IsDigit(s[i])
         THEN <<<<i, NumberEnd(s, i) - 1>>>> \o NumberSpans(s, NumberEnd(s, i))
         ELSE NumberSpans(s, i + 1)

\* re.findall(r'\d+(?:,\d+)*(?:\.\d+)?', line)
FindNumbers(line) ==
    LET spans == NumberSpans(line, 1)
    IN  [k \in 1..Len(spans) |-> SubSeq(line, spans[k][1], spans[k][2])]

\* re.split(r'\d+(?:,\d+)*(?:\.\d+)?', line)[0]: the text before the first match.
BeforeFirstNumber(line) ==
    LET spans == NumberSpans(line, 1)
    IN  IF Len(spans) = 0 THEN line ELSE SubSeq(line, 1, spans[1][1] - 1)

\* ------------------------------------------------------ the input texts

\* Every sequence of at most n sample lines.
RECURSIVE LineLists(_)
LineLists(n) ==
    IF n = 0 THEN {<<>>}
    ELSE LET shorter == LineLists(n - 1)
         IN  shorter \cup
             {Append(ls, l) : ls \in {x \in shorter : Len(x) = n - 1}, l \in SampleLines}

\* The extracted texts: the sample lines joined by newlines (no line: the empty text).
Texts == {Join(ls) : ls \in LineLists(MaxLines)}

\* ------------------------------------------------- the writers' steps

VARIABLES
    text,            \* extracted_text, the argument of both writers
    writer,          \* the writer main is running: "docx", then "excel"
    pc,              \* the place in the running writer
    is_financial,
    lines,
    idx,             \* the place of the classification loop in lines
    in_items,
    in_totals,
    header_section,
    item_section,
    total_section,
    num_columns,     \* document-writer only; 0 while unassigned
    remaining_text,  \* document-writer only
    doc,             \* the elements added to the Word document, in order
    ws,              \* the rows written to the worksheet, in order
    row_idx          \* spreadsheet-writer only; 0 while unassigned

vars == <<text, writer, pc, is_financial, lines, idx, in_items, in_totals,
          header_section, item_section, total_section, num_columns,
          remaining_text, doc, ws, row_idx>>

\* A faulty variant of IsFinancial: the keywords sought in the text as
\* written, not in text.lower().
IsFinancial_CaseSensitive(t) ==
    \E k \in DOMAIN financial_keywords : Contains(t, financial_keywords[k])

\* is_financial = any(keyword in text.lower() for keyword in financial_keywords)
IsFinancial(t) ==
    LET lowered == Lower(t)
    IN  \E k \in DOMAIN financial_keywords : Contains(lowered, financial_keywords[k])

\* A faulty variant of InputLines: every line that starts with the preamble is
\* left out, wherever it stands.
InputLines_AnyPosition(t) ==
    LET NotPreamble(l) == ~StartsWith(l, preamble_prefix)
    IN  SelectSeq(SplitLines(t), NotPreamble)

\* lines = text.split('\n'), without lines[0] when it starts with the preamble.
InputLines(t) ==
    LET ls == SplitLines(t)
    IN  IF Len(ls) > 0 /\ StartsWith(ls[1], preamble_prefix) THEN Tail(ls) ELSE ls

\* Faulty variants of Classify, which the properties of the classifier must
\* reject: the item branch without "in_totals = False"; the total branch
\* without "and in_items"; the final else without its append.
Classify_KeepTotals(line, items, totals) ==
    IF SearchAny(item_pattern, Lower(line))
    THEN [section |-> "item", in_items |-> TRUE, in_totals |-> totals]
    ELSE IF SearchAny(total_pattern, Lower(line)) /\ items
    THEN [section |-> "total", in_items |-> FALSE, in_totals |-> TRUE]
    ELSE IF items
    THEN [section |-> "item", in_items |-> items, in_totals |-> totals]
    ELSE IF totals
    THEN [section |-> "total", in_items |-> items, in_totals |-> totals]
    ELSE [section |-> "header", in_items |-> items, in_totals |-> totals]

Classify_TotalAnywhere(line, items, totals) ==
    IF SearchAny(item_pattern, Lower(line))
    THEN [section |-> "item", in_items |-> TRUE, in_totals |-> FALSE]
    ELSE IF SearchAny(total_pattern, Lower(line))
    THEN [section |-> "total", in_items |-> FALSE, in_totals |-> TRUE]
    ELSE IF items
    THEN [section |-> "item", in_items |-> items, in_totals |-> totals]
    ELSE IF totals
    THEN [section |-> "total", in_items |-> items, in_totals |-> totals]
    ELSE [section |-> "header", in_items |-> items, in_totals |-> totals]

Classify_DropHeader(line, items, totals) ==
    IF SearchAny(item_pattern, Lower(line))
    THEN [section |-> "item", in_items |-> TRUE, in_totals |-> FALSE]
    ELSE IF SearchAny(total_pattern, Lower(line)) /\ items
    THEN [section |-> "total", in_items |-> FALSE, in_totals |-> TRUE]
    ELSE IF items
    THEN [section |-> "item", in_items |-> items, in_totals |-> totals]
    ELSE IF totals
    THEN [section |-> "total", in_items |-> items, in_totals |-> totals]
    ELSE [section |-> "none", in_items |-> items, in_totals |-> totals]

\* A faulty variant of Classify: the total branch without "in_items = False".
Classify_TotalKeepsItems(line, items, totals) ==
    IF SearchAny(item_pattern, Lower(line))
    THEN [section |-> "item", in_items |-> TRUE, in_totals |-> FALSE]
    ELSE IF SearchAny(total_pattern, Lower(line)) /\ items
    THEN [section |-> "total", in_items |-> items, in_totals |-> TRUE]
    ELSE IF items
    THEN [section |-> "item", in_items |-> items, in_totals |-> totals]
    ELSE IF totals
    THEN [section |-> "total", in_items |-> items, in_totals |-> totals]
    ELSE [section |-> "header", in_items |-> items, in_totals |-> totals]

\* One pass of the body of the classification loop on a stripped, non-empty
\* line: the section the line is appended to and the two flags after it.
Classify(line, items, totals) ==
    IF SearchAny(item_pattern, Lower(line))
    THEN [section |-> "item", in_items |-> TRUE, in_totals |-> FALSE]
    ELSE IF SearchAny(total_pattern, Lower(line)) /\ items
    THEN [section |-> "total", in_items |-> FALSE, in_totals |-> TRUE]
    ELSE IF items
    THEN [section |-> "item", in_items |-> items, in_totals |-> totals]
    ELSE IF totals
    THEN [section |-> "total", in_items |-> items, in_totals |-> totals]
    ELSE [section |-> "header", in_items |-> items, in_totals |-> totals]

\* The elements of the Word document.
DocHeading(name) ==
    [kind |-> "heading", sect |-> name, cells |-> <<>>, cols |-> 0,
     merged |-> FALSE, bold |-> TRUE]
DocTable(name, n) ==
    [kind |-> "table", sect |-> name, cells |-> <<>>, cols |-> n,
     merged |-> FALSE, bold |-> FALSE]
DocRow(name, cs, m, b) ==
    [kind |-> "row", sect |-> name, cells |-> cs, cols |-> 0,
     merged |-> m, bold |-> b]
DocParagraph(name, s) ==
    [kind |-> "paragraph", sect |-> name, cells |-> <<s>>, cols |-> 0,
     merged |-> FALSE, bold |-> FALSE]

\* A row of the worksheet: the values written to columns 1, 2, ... of row r.
WsRow(name, r, cs, m) == [sect |-> name, row |-> r, cells |-> cs, merged |-> m]

Init ==
    /\ text \in Texts
    /\ writer = "docx"
    /\ pc = "detect"
    /\ is_financial = FALSE
    /\ lines = <<>>
    /\ idx = 1
    /\ in_items = FALSE
    /\ in_totals = FALSE
    /\ header_section = <<>>
    /\ item_section = <<>>
    /\ total_section = <<>>
    /\ num_columns = 0
    /\ remaining_text = <<>>
    /\ doc = <<>>
    /\ ws = <<>>
    /\ row_idx = 0

\* The financial-document test, the split into lines and the preamble skip.
Detect ==
    /\ pc = "detect"
    /\ is_financial' = IsFinancial(text)
    /\ IF is_financial'
       THEN /\ lines' = InputLines(text)
            /\ pc' = IF Len(lines') = 0 THEN "header" ELSE "classify"
       ELSE /\ lines' = lines
            /\ pc' = "plain"
    /\ idx' = 1
    /\ UNCHANGED <<text, writer, in_items, in_totals, header_section, item_section,
                   total_section, num_columns, remaining_text, doc, ws, row_idx>>

\* One iteration of "for line in lines" of the state machine.
ClassifyLine ==
    /\ pc = "classify"
    /\ idx <= Len(lines)
    /\ LET line == Strip(lines[idx])
           c == Classify(line, in_items, in_totals)
       IN  IF line = <<>>
           THEN UNCHANGED <<in_items, in_totals, header_section, item_section,
                            total_section>>
           ELSE /\ in_items' = c.in_items
                /\ in_totals' = c.in_totals
                /\ header_section' =
                       IF c.section = "header" THEN Append(header_section, line)
                       ELSE header_section
                /\ item_section' =
                       IF c.section = "item" THEN Append(item_section, line)
                       ELSE item_section
                /\ total_section' =
                       IF c.section = "total" THEN Append(total_section, line)
                       ELSE total_section
    /\ idx' = idx + 1
    /\ pc' = IF idx + 1 > Len(lines) THEN "header" ELSE "classify"
    /\ UNCHANGED <<text, writer, is_financial, lines, num_columns, remaining_text,
                   doc, ws, row_idx>>

\* ------------------------------------------- header and totals lines

HasColon(line) == Places(line, COLON) # {}

\* A faulty variant of KeyValue: the two parts as split, not stripped.
KeyValue_NoStrip(line) == <<SplitColon(line)[1], SplitColon(line)[2]>>

\* A faulty variant of KeyValue: the line split at its last colon.
KeyValue_LastColon(line) ==
    LET n == CHOOSE n \in Places(line, COLON) : \A m \in Places(line, COLON) : m <= n
    IN  <<Strip(SubSeq(line, 1, n - 1)), Strip(SubSeq(line, n + 1, Len(line)))>>

\* key.strip(), value.strip() of line.split(':', 1)
KeyValue(line) == <<Strip(SplitColon(line)[1]), Strip(SplitColon(line)[2])>>

\* The currency regex ([\d,\.]+)\s*([A-Z]{3}) tried at place i: the place after
\* the match, 0 when there is none.  A shorter run of [\d,\.] is followed by a
\* character of the run, which neither \s nor [A-Z] matches, and whitespace is
\* no capital letter, so only the longest run and the longest \s* can match.
RECURSIVE AmountEnd(_, _)
AmountEnd(s, i) ==
    IF i <= Len(s) /\ (IsDigit(s[i]) \/ s[i] = COMMA \/ s[i] = DOT)
    THEN AmountEnd(s, i + 1) ELSE i

RECURSIVE SpacesEnd(_, _)
SpacesEnd(s, i) == IF i <= Len(s) /\ IsSpace(s[i]) THEN SpacesEnd(s, i + 1) ELSE i

CurrencyEndAt(s, i) ==
    LET a == AmountEnd(s, i)
        c == SpacesEnd(s, a)
    IN  IF a > i /\ c + 2 <= Len(s) /\ \A j \in c..(c + 2) : s[j] \in 65..90
        THEN c + 3 ELSE 0

\* re.search(r'([\d,\.]+)\s*([A-Z]{3})', line): the leftmost match as
\* [found, all (group 0), amount (group 1), currency (group 2)].
CurrencySearch(line) ==
    LET starts == {i \in 1..Len(line) : CurrencyEndAt(line, i) # 0}
    IN  IF starts = {}
        THEN [found |-> FALSE, all |-> <<>>, amount |-> <<>>, currency |-> <<>>]
        ELSE LET i == First(starts)
                 e == CurrencyEndAt(line, i)
             IN  [found |-> TRUE,
                  all |-> SubSeq(line, i, e - 1),
                  amount |-> SubSeq(line, i, AmountEnd(line, i) - 1),
                  currency |-> SubSeq(line, e - 3, e - 1)]

\* s.replace(sub, ''): every occurrence of the non-empty sub, left to right.
RECURSIVE Remove(_, _)
Remove(s, sub) ==
    IF Len(s) < Len(sub) THEN s
    ELSE IF SubSeq(s, 1, Len(sub)) = sub
         THEN Remove(SubSeq(s, Len(sub) + 1, Len(s)), sub)
         ELSE <<s[1]>> \o Remove(Tail(s), sub)

\* ------------------------------------------------ the item table

\* re.search of the column-header regex in first_line.lower()
HeaderDetected(first_line) == SearchAny(header_pattern, Lower(first_line))

\* count = sum(1 for indicator in column_indicators
\*             if indicator.lower() in first_line.lower())
IndicatorCount(first_line) ==
    Cardinality({k \in DOMAIN column_indicators :
                    Contains(Lower(first_line), Lower(column_indicators[k]))})

\* A faulty variant of NumColumns: the count as it is, without "at least 2".
NumColumns_NoMinimum(first_line) ==
    IF HeaderDetected(first_line) THEN IndicatorCount(first_line) ELSE 1

\* num_columns of the document-writer.
NumColumns(first_line) ==
    IF HeaderDetected(first_line) THEN Max(IndicatorCount(first_line), 2) ELSE 1

\* while len(headers) < num_columns: headers.append(f"Column {len(headers)+1}")
RECURSIVE PadHeaders(_, _)
PadHeaders(hs, n) ==
    IF Len(hs) < n THEN PadHeaders(Append(hs, column_label \o Str(Len(hs) + 1)), n)
    ELSE hs

\* A faulty variant of Headers: the labels found, without the padding loop.
Headers_NoPadding(first_line, n) ==
    LET Hit(ind) == Contains(Lower(first_line), Lower(ind))
        hits == SelectSeq(header_indicators, Hit)
    IN  [k \in 1..Len(hits) |-> Capitalize(hits[k])]

\* A faulty variant of Headers: the padding loop with "<=" for "<", one label
\* more than the row has cells.
Headers_Overfull(first_line, n) ==
    LET Hit(ind) == Contains(Lower(first_line), Lower(ind))
        hits == SelectSeq(header_indicators, Hit)
    IN  PadHeaders([k \in 1..Len(hits) |-> Capitalize(hits[k])], n + 1)

\* headers of the document-writer.
Headers(first_line, n) ==
    LET Hit(ind) == Contains(Lower(first_line), Lower(ind))
        hits == SelectSeq(header_indicators, Hit)
    IN  PadHeaders([k \in 1..Len(hits) |-> Capitalize(hits[k])], n)

\* columns of the spreadsheet-writer.
Columns(first_item_line) ==
    LET Hit(col) == Contains(Lower(first_item_line), Lower(col))
        hits == SelectSeq(column_indicators, Hit)
    IN  IF Len(hits) = 0 THEN default_columns ELSE hits

\* A faulty variant of Parts: the description as split, not stripped.
Parts_NoStrip(line) ==
    LET numbers == FindNumbers(line)
        desc_match == BeforeFirstNumber(line)
    IN  IF Len(numbers) >= 2
        THEN (IF desc_match # <<>> THEN <<desc_match>> ELSE <<>>) \o numbers
        ELSE <<line>>

\* parts of a data row line (both writers).
Parts(line) ==
    LET numbers == FindNumbers(line)
        desc_match == Strip(BeforeFirstNumber(line))
    IN  IF Len(numbers) >= 2
        THEN (IF desc_match # <<>> THEN <<desc_match>> ELSE <<>>) \o numbers
        ELSE <<line>>

\* A faulty variant of FillCells: every part written, without "if i < num_columns".
FillCells_NoGuard(ps, n) == [i \in 1..Max(n, Len(ps)) |-> IF i <= Len(ps) THEN ps[i] ELSE <<>>]

\* The cells of a row of the document-writer's items table, which has n cells:
\* row_cells[i].text = part for i < num_columns, the other cells stay empty.
FillCells(ps, n) == [i \in 1..n |-> IF i <= Len(ps) THEN ps[i] ELSE <<>>]

\* item_data of the document-writer.
ItemData(section, n) == IF n > 1 THEN Tail(section) ELSE section

\* The data rows of the spreadsheet-writer: item_section[1:].
ExcelItemData(section) == Tail(section)

\* --------------------------------------------- the document-writer

DocxHeader ==
    /\ writer = "docx"
    /\ pc = "header"
    /\ doc' = doc \o <<DocHeading("Invoice / Financial Document"),
                       DocHeading("Header Information"),
                       DocTable("Header", 2)>>
              \o [k \in 1..Len(header_section) |->
                    IF HasColon(header_section[k])
                    THEN DocRow("Header", KeyValue(header_section[k]), FALSE, FALSE)
                    ELSE DocRow("Header", <<header_section[k]>>, TRUE, FALSE)]
    /\ pc' = "items"
    /\ UNCHANGED <<text, writer, is_financial, lines, idx, in_items, in_totals,
                   header_section, item_section, total_section, num_columns,
                   remaining_text, ws, row_idx>>

\* header_row[i].text = header raises IndexError for a label beyond the cells
\* of the row; save_as_docx catches ImportError only, so main's handler ends
\* the run before save_as_excel.
DocxItems ==
    /\ writer = "docx"
    /\ pc = "items"
    /\ IF item_section # <<>>
       THEN LET first_line == item_section[1]
                n == NumColumns(first_line)
                item_data == ItemData(item_section, n)
            IN  /\ num_columns' = n
                /\ IF n > 1 /\ Len(Headers(first_line, n)) > n
                   THEN /\ doc' = doc \o <<DocHeading("Items"), DocTable("Items", n)>>
                        /\ pc' = "error"
                   ELSE /\ doc' = doc \o <<DocHeading("Items"), DocTable("Items", n)>>
                               \o (IF n > 1
                                   THEN <<DocRow("ItemsHeader", Headers(first_line, n), FALSE, TRUE)>>
                                   ELSE <<>>)
                               \o [k \in 1..Len(item_data) |->
                                     IF n > 1
                                     THEN DocRow("Items", FillCells(Parts(item_data[k]), n), FALSE, FALSE)
                                     ELSE DocRow("Items", <<item_data[k]>>, FALSE, FALSE)]
                        /\ pc' = "totals"
       ELSE /\ UNCHANGED <<num_columns, doc>>
            /\ pc' = "totals"
    /\ UNCHANGED <<text, writer, is_financial, lines, idx, in_items, in_totals,
                   header_section, item_section, total_section, remaining_text,
                   ws, row_idx>>

\* A faulty variant of DocxTotalRow: the description cell is the line as it
\* is, the matched amount not taken out of it.
DocxTotalRow_NoRemove(line) ==
    IF HasColon(line) THEN DocRow("Totals", KeyValue(line), FALSE, FALSE)
    ELSE LET amount_match == CurrencySearch(line)
         IN  IF amount_match.found
             THEN DocRow("Totals", <<Strip(line), amount_match.all>>, FALSE, FALSE)
             ELSE DocRow("Totals", <<line>>, TRUE, SearchAny(bold_pattern, Lower(line)))

\* A row of the document-writer's totals table.
DocxTotalRow(line) ==
    IF HasColon(line) THEN DocRow("Totals", KeyValue(line), FALSE, FALSE)
    ELSE LET amount_match == CurrencySearch(line)
         IN  IF amount_match.found
             THEN DocRow("Totals",
                         <<Strip(Remove(line, amount_match.all)), amount_match.all>>,
                         FALSE, FALSE)
             ELSE DocRow("Totals", <<line>>, TRUE, SearchAny(bold_pattern, Lower(line)))

DocxTotals ==
    /\ writer = "docx"
    /\ pc = "totals"
    /\ IF total_section # <<>>
       THEN doc' = doc \o <<DocHeading("Totals"), DocTable("Totals", 2)>>
                   \o [k \in 1..Len(total_section) |-> DocxTotalRow(total_section[k])]
       ELSE doc' = doc
    /\ pc' = "tail"
    /\ UNCHANGED <<text, writer, is_financial, lines, idx, in_items, in_totals,
                   header_section, item_section, total_section, num_columns,
                   remaining_text, ws, row_idx>>

\* remaining_text: the lines after the first line whose stripped value is one
\* of the stripped lines of total_section.
RemainingText(ls, totals) ==
    LET stripped == {Strip(totals[k]) : k \in DOMAIN totals}
        hits == {m \in DOMAIN ls : Strip(ls[m]) \in stripped}
    IN  IF hits = {} THEN <<>> ELSE SubSeq(ls, First(hits) + 1, Len(ls))

\* A faulty variant of DocxTail: the section is added whenever remaining_text
\* holds a line, without "any(line.strip() for line in remaining_text)".
DocxTail_AnyTail ==
    /\ writer = "docx"
    /\ pc = "tail"
    /\ LET rest == RemainingText(lines, total_section)
           NonBlank(l) == Strip(l) # <<>>
           shown == SelectSeq(rest, NonBlank)
       IN  /\ remaining_text' = rest
           /\ doc' = IF Len(rest) > 0
                     THEN doc \o <<DocHeading("Additional Information")>>
                          \o [k \in 1..Len(shown) |-> DocParagraph("Additional", shown[k])]
                     ELSE doc
    /\ pc' = "save"
    /\ UNCHANGED <<text, writer, is_financial, lines, idx, in_items, in_totals,
                   header_section, item_section, total_section, num_columns,
                   ws, row_idx>>

DocxTail ==
    /\ writer = "docx"
    /\ pc = "tail"
    /\ LET rest == RemainingText(lines, total_section)
           NonBlank(l) == Strip(l) # <<>>
           shown == SelectSeq(rest, NonBlank)
       IN  /\ remaining_text' = rest
           /\ doc' = IF Len(shown) > 0
                     THEN doc \o <<DocHeading("Additional Information")>>
                          \o [k \in 1..Len(shown) |-> DocParagraph("Additional", shown[k])]
                     ELSE doc
    /\ pc' = "save"
    /\ UNCHANGED <<text, writer, is_financial, lines, idx, in_items, in_totals,
                   header_section, item_section, total_section, num_columns,
                   ws, row_idx>>

\* Non-financial text: one paragraph a line, an empty one for a blank line.
DocxPlain ==
    /\ writer = "docx"
    /\ pc = "plain"
    /\ LET ls == SplitLines(text)
       IN  doc' = doc \o [k \in 1..Len(ls) |->
                            IF Strip(ls[k]) # <<>> THEN DocParagraph("Plain", ls[k])
                            ELSE DocParagraph("Plain", <<>>)]
    /\ pc' = "save"
    /\ UNCHANGED <<text, writer, is_financial, lines, idx, in_items, in_totals,
                   header_section, item_section, total_section, num_columns,
                   remaining_text, ws, row_idx>>

\* A faulty variant of DocxSave: the two flags of the state machine outlive the
\* call, as they would if they were kept outside the function.
DocxSave_KeepFlags ==
    /\ writer = "docx"
    /\ pc = "save"
    /\ writer' = "excel"
    /\ pc' = "detect"
    /\ is_financial' = FALSE
    /\ lines' = <<>>
    /\ idx' = 1
    /\ header_section' = <<>>
    /\ item_section' = <<>>
    /\ total_section' = <<>>
    /\ UNCHANGED <<text, in_items, in_totals, num_columns, remaining_text, doc, ws, row_idx>>

\* doc.save; save_as_docx returns and main calls save_as_excel, whose locals
\* are fresh.
DocxSave ==
    /\ writer = "docx"
    /\ pc = "save"
    /\ writer' = "excel"
    /\ pc' = "detect"
    /\ is_financial' = FALSE
    /\ lines' = <<>>
    /\ idx' = 1
    /\ in_items' = FALSE
    /\ in_totals' = FALSE
    /\ header_section' = <<>>
    /\ item_section' = <<>>
    /\ total_section' = <<>>
    /\ UNCHANGED <<text, num_columns, remaining_text, doc, ws, row_idx>>

\* ------------------------------------------- the spreadsheet-writer

ExcelHeader ==
    /\ writer = "excel"
    /\ pc = "header"
    /\ ws' = ws \o [k \in 1..Len(header_section) |->
                      IF HasColon(header_section[k])
                      THEN WsRow("Header", k, KeyValue(header_section[k]), FALSE)
                      ELSE WsRow("Header", k, <<header_section[k]>>, TRUE)]
    /\ row_idx' = Len(header_section) + 2
    /\ pc' = "items"
    /\ UNCHANGED <<text, writer, is_financial, lines, idx, in_items, in_totals,
                   header_section, item_section, total_section, num_columns,
                   remaining_text, doc>>

ExcelItems ==
    /\ writer = "excel"
    /\ pc = "items"
    /\ IF item_section # <<>>
       THEN LET first_item_line == item_section[1]
                data == ExcelItemData(item_section)
            IN  /\ ws' = ws \o <<WsRow("ItemsHeader", row_idx, Columns(first_item_line), FALSE)>>
                         \o [k \in 1..Len(data) |->
                               WsRow("Items", row_idx + k, Parts(data[k]), FALSE)]
                /\ row_idx' = row_idx + 1 + Len(data)
       ELSE UNCHANGED <<ws, row_idx>>
    /\ pc' = "totals"
    /\ UNCHANGED <<text, writer, is_financial, lines, idx, in_items, in_totals,
                   header_section, item_section, total_section, num_columns,
                   remaining_text, doc>>

\* The cells of a row of the spreadsheet-writer's totals.
ExcelTotalCells(line) ==
    IF HasColon(line) THEN KeyValue(line)
    ELSE LET amount_match == CurrencySearch(line)
         IN  IF amount_match.found
             THEN <<Strip(Remove(line, amount_match.all)),
                    amount_match.amount \o <<32>> \o amount_match.currency>>
             ELSE <<line>>

ExcelTotals ==
    /\ writer = "excel"
    /\ pc = "totals"
    /\ ws' = ws \o [k \in 1..Len(total_section) |->
                      WsRow("Totals", row_idx + k, ExcelTotalCells(total_section[k]), FALSE)]
    /\ row_idx' = row_idx + 1 + Len(total_section)
    /\ pc' = "save"
    /\ UNCHANGED <<text, writer, is_financial, lines, idx, in_items, in_totals,
                   header_section, item_section, total_section, num_columns,
                   remaining_text, doc>>

\* Non-financial text: line k goes to row k, split at its first colon if any.
ExcelPlain ==
    /\ writer = "excel"
    /\ pc = "plain"
    /\ LET ls == SplitLines(text)
       IN  ws' = ws \o [k \in 1..Len(ls) |->
                          IF HasColon(ls[k]) THEN WsRow("Plain", k, KeyValue(ls[k]), FALSE)
                          ELSE WsRow("Plain", k, <<ls[k]>>, FALSE)]
    /\ pc' = "save"
    /\ UNCHANGED <<text, writer, is_financial, lines, idx, in_items, in_totals,
                   header_section, item_section, total_section, num_columns,
                   remaining_text, doc, row_idx>>

\* wb.save (the column widths set before it change no cell).
ExcelSave ==
    /\ writer = "excel"
    /\ pc = "save"
    /\ pc' = "done"
    /\ UNCHANGED <<text, writer, is_financial, lines, idx, in_items, in_totals,
                   header_section, item_section, total_section, num_columns,
                   remaining_text, doc, ws, row_idx>>

Next ==
    \/ Detect
    \/ ClassifyLine
    \/ DocxHeader
    \/ DocxItems
    \/ DocxTotals
    \/ DocxTail
    \/ DocxPlain
    \/ DocxSave
    \/ ExcelHeader
    \/ ExcelItems
    \/ ExcelTotals
    \/ ExcelPlain
    \/ ExcelSave

Spec == Init /\ [][Next]_vars

\* ------------------------------- the input texts of the totals and the tail
\* Texts that bring every form of Header and Totals line to the two writers:
\* with colons, with a currency amount and none, blank, before and after the
\* first Totals line.

TotalsLines == {LineBillItem, LineInvoice, LineTotal, LineCurrency, LineTax, LineBlank}

RECURSIVE TotalsLineLists(_)
TotalsLineLists(n) ==
    IF n = 0 THEN {<<>>}
    ELSE LET shorter == TotalsLineLists(n - 1)
         IN  shorter \cup
             {Append(ls, l) : ls \in {x \in shorter : Len(x) = n - 1}, l \in TotalsLines}

TotalsTexts == {Join(ls) : ls \in TotalsLineLists(MaxLines)}

InitTotals ==
    /\ text \in TotalsTexts
    /\ writer = "docx"
    /\ pc = "detect"
    /\ is_financial = FALSE
    /\ lines = <<>>
    /\ idx = 1
    /\ in_items = FALSE
    /\ in_totals = FALSE
    /\ header_section = <<>>
    /\ item_section = <<>>
    /\ total_section = <<>>
    /\ num_columns = 0
    /\ remaining_text = <<>>
    /\ doc = <<>>
    /\ ws = <<>>
    /\ row_idx = 0

SpecTotals == InitTotals /\ [][Next]_vars

\* ------------------------------------------------------- properties

\* The state of the classifier as one of three states.
StateOf(items, totals) ==
    IF items THEN "InItems" ELSE IF totals THEN "InTotals" ELSE "InHeader"

\* The line the classification loop is about to read, stripped.
CurrentLine == Strip(lines[idx])

RECURSIVE Interleaves(_, _, _, _)
Interleaves(all, a, b, c) ==
    IF all = <<>> THEN a = <<>> /\ b = <<>> /\ c = <<>>
    ELSE \/ a # <<>> /\ Head(a) = Head(all) /\ Interleaves(Tail(all), Tail(a), b, c)
         \/ b # <<>> /\ Head(b) = Head(all) /\ Interleaves(Tail(all), a, Tail(b), c)
         \/ c # <<>> /\ Head(c) = Head(all) /\ Interleaves(Tail(all), a, b, Tail(c))

\* The lines the loop has read so far, stripped, without the blank ones.
ReadNonBlank ==
    LET read == SubSeq(lines, 1, idx - 1)
        stripped == [k \in 1..Len(read) |-> Strip(read[k])]
        NonBlank(l) == l # <<>>
    IN  SelectSeq(stripped, NonBlank)

\* C2: the three sections partition, in input order, the non-blank lines read
\* so far (all of them once the loop has ended); blank lines are in none, so
\* the three lengths sum to the number of non-blank lines.
C2_Partition ==
    is_financial =>
        /\ Interleaves(ReadNonBlank, header_section, item_section, total_section)
        /\ Len(header_section) + Len(item_section) + Len(total_section)
             = Len(ReadNonBlank)
        /\ (pc # "classify" => idx = Len(lines) + 1)

\* The loop has ended on three lines, one of them blank, with lines in two sections.
C2_Witness ==
    /\ pc = "header"
    /\ Len(lines) = 3
    /\ Len(ReadNonBlank) = 2
    /\ header_section # <<>>
    /\ item_section # <<>>

\* C3: each non-blank line goes where the three rules, tried in order, send it.
C3_TransitionRules ==
    [][(pc = "classify" /\ CurrentLine # <<>>)
         => LET line == CurrentLine
                state == StateOf(in_items, in_totals)
                after == StateOf(in_items', in_totals')
                ToHeader == /\ header_section' = Append(header_section, line)
                            /\ item_section' = item_section
                            /\ total_section' = total_section
                ToItems  == /\ item_section' = Append(item_section, line)
                            /\ header_section' = header_section
                            /\ total_section' = total_section
                ToTotals == /\ total_section' = Append(total_section, line)
                            /\ header_section' = header_section
                            /\ item_section' = item_section
            IN  IF \E w \in item_pattern : Contains(Lower(line), w)
                THEN ToItems /\ after = "InItems"
                ELSE IF state = "InItems" /\ \E w \in total_pattern : Contains(Lower(line), w)
                THEN ToTotals /\ after = "InTotals"
                ELSE /\ after = state
                     /\ state = "InHeader" => ToHeader
                     /\ state = "InItems" => ToItems
                     /\ state = "InTotals" => ToTotals]_vars

\* A line with a total keyword was read in state InHeader and is a Header line.
C3_Witness ==
    /\ is_financial
    /\ \E k \in DOMAIN header_section :
          SearchAny(total_pattern, Lower(header_section[k]))
    /\ item_section # <<>>

\* The text with every capital letter A-Z replaced by its small letter.
LoweredText ==
    [i \in 1..Len(text) |-> IF text[i] \in 65..90 THEN text[i] + 32 ELSE text[i]]

\* Whether a keyword of the financial keyword list occurs in the lower-cased text.
AnyKeywordOccurs ==
    LET low == LoweredText
    IN  \E n \in DOMAIN financial_keywords :
            LET k == financial_keywords[n]
            IN  \E i \in 1..(Len(low) - Len(k) + 1) :
                    \A j \in 1..Len(k) : low[i + j - 1] = k[j]

\* The running writer has just tested the text for financial keywords.
JustDetected ==
    \/ pc = "plain"
    \/ pc = "classify" /\ idx = 1
    \/ pc = "header" /\ lines = <<>>

\* C4: in both writers the classifier runs exactly when a financial keyword
\* occurs in the lower-cased text; otherwise no section is detected and the
\* lines are written one by one.
C4_Gating ==
    /\ JustDetected => (is_financial <=> AnyKeywordOccurs)
    /\ pc \in {"classify", "header", "items", "totals", "tail"} => is_financial
    /\ pc = "plain" =>
          /\ ~is_financial
          /\ header_section = <<>> /\ item_section = <<>> /\ total_section = <<>>
    /\ (writer = "docx" /\ pc = "save") =>
          LET occurs == AnyKeywordOccurs
          IN  /\ doc # <<>>
              /\ occurs <=> doc[1].kind = "heading"
              /\ ~occurs <=> \A k \in DOMAIN doc : doc[k].sect = "Plain"
    /\ pc = "done" =>
          LET occurs == AnyKeywordOccurs
          IN  /\ ~occurs <=> (ws # <<>> /\ ws[1].sect = "Plain")
              /\ occurs <=> \A k \in DOMAIN ws : ws[k].sect # "Plain"

\* The second writer classifies a text whose keyword is written with a capital.
C4_Witness ==
    /\ writer = "excel"
    /\ pc = "classify"
    /\ AnyKeywordOccurs
    /\ ~IsFinancial_CaseSensitive(text)

\* Texts the properties name.
TxtDescription == <<68, 101, 115, 99, 114, 105, 112, 116, 105, 111, 110>>   \* Description
TxtQty == <<81, 116, 121>>   \* Qty
TxtPrice == <<80, 114, 105, 99, 101>>   \* Price
TxtAmount == <<65, 109, 111, 117, 110, 116>>   \* Amount
TxtColumn2 == <<67, 111, 108, 117, 109, 110, 32, 50>>   \* Column 2
TxtWidgetA == <<87, 105, 100, 103, 101, 116, 32, 65>>   \* Widget A
Txt3 == <<51>>   \* 3
Txt1050 == <<49, 48, 46, 53, 48>>   \* 10.50
Txt3150 == <<51, 49, 46, 53, 48>>   \* 31.50
TxtBillItem == <<66, 105, 108, 108, 32, 105, 116, 101, 109>>   \* Bill item
Txt1000 == <<49, 44, 48, 48, 48>>   \* 1,000
Txt2 == <<50>>   \* 2

\* The lines of the text as the non-financial branch reads them.
TextLines == SplitLines(text)

\* The two cells of a line split once at its first colon, both trimmed; the
\* line itself as the only cell when it holds no colon.
SplitAtFirstColon(l) ==
    IF \E n \in 1..Len(l) : l[n] = COLON
    THEN LET n == CHOOSE n \in 1..Len(l) :
                     l[n] = COLON /\ \A m \in 1..(n - 1) : l[m] # COLON
         IN  <<Strip(SubSeq(l, 1, n - 1)), Strip(SubSeq(l, n + 1, Len(l)))>>
    ELSE <<l>>

\* C5 as stated: without a financial keyword, both writers make one row of
\* every non-empty line (a line that is not blank) and none of an empty line,
\* and split a line at its first colon.
C5_RowPerNonEmptyLine ==
    (pc = "done" /\ ~AnyKeywordOccurs) =>
        LET NonEmpty(l) == \E i \in 1..Len(l) : ~IsSpace(l[i])
            kept == SelectSeq(TextLines, NonEmpty)
        IN  /\ Len(ws) = Len(kept)
            /\ Len(doc) = Len(kept)
            /\ \A k \in 1..Len(kept) :
                  /\ ws[k].cells = SplitAtFirstColon(kept[k])
                  /\ doc[k].cells = SplitAtFirstColon(kept[k])

\* C5, amended: without a financial keyword every line, empty or not, gives
\* one output element, in input order.  The spreadsheet-writer writes line k
\* to row k: two trimmed cells split once at the first colon, else one cell.
\* The document-writer adds one paragraph a line, the whole line unsplit, and
\* an empty paragraph for a blank line.
C5_ElementPerLine ==
    (pc = "done" /\ ~AnyKeywordOccurs) =>
        /\ Len(ws) = Len(TextLines)
        /\ Len(doc) = Len(TextLines)
        /\ \A k \in 1..Len(TextLines) :
              /\ ws[k].row = k
              /\ ws[k].cells = SplitAtFirstColon(TextLines[k])
              /\ doc[k].kind = "paragraph"
              /\ doc[k].cells =
                    <<IF \A i \in 1..Len(TextLines[k]) : IsSpace(TextLines[k][i])
                      THEN <<>> ELSE TextLines[k]>>

\* A text without keyword, with a line split at its colon and a blank line.
C5_Witness ==
    /\ pc = "done"
    /\ ~AnyKeywordOccurs
    /\ \E k \in DOMAIN ws : Len(ws[k].cells) = 2
    /\ \E k \in DOMAIN doc : doc[k].cells = << <<>> >>

\* The rows of a table of the Word document, and of a part of the worksheet.
DocRows(name) ==
    LET Is(e) == e.kind = "row" /\ e.sect = name
    IN  SelectSeq(doc, Is)

WsRows(name) ==
    LET Is(r) == r.sect = name
    IN  SelectSeq(ws, Is)

\* The running writer has just written its item table (no later step changes
\* a row of it).
DocxItemsWritten == writer = "docx" /\ pc = "totals"
ExcelItemsWritten == writer = "excel" /\ pc = "totals"

\* The column indicators present in a line, and whether a column-header
\* keyword is.
PresentIndicators(line) ==
    {k \in DOMAIN column_indicators : Contains(Lower(line), column_indicators[k])}

HeaderKeywordIn(line) == \E w \in header_pattern : Contains(Lower(line), w)

\* The column count the first LineItems line gives.
InferredColumns(line) ==
    IF HeaderKeywordIn(line)
    THEN (IF Cardinality(PresentIndicators(line)) > 2
          THEN Cardinality(PresentIndicators(line)) ELSE 2)
    ELSE 1

\* C6 as stated, of both item tables: when the first LineItems line holds a
\* column-header keyword, the table has max(indicators present, 2) columns.
C6_ColumnCountBothWriters ==
    (item_section # <<>> /\ HeaderKeywordIn(item_section[1])) =>
        /\ DocxItemsWritten => num_columns = InferredColumns(item_section[1])
        /\ ExcelItemsWritten =>
              Len(WsRows("ItemsHeader")[1].cells) = InferredColumns(item_section[1])

\* C6, amended: in the document-writer the column count is max(indicators
\* present, 2), 4 for "Description Qty Price Amount"; the spreadsheet-writer
\* writes one header label for each indicator present, with no minimum of 2.
C6_ColumnCount ==
    (item_section # <<>> /\ HeaderKeywordIn(item_section[1])) =>
        /\ DocxItemsWritten =>
              /\ num_columns = InferredColumns(item_section[1])
              /\ \E k \in DOMAIN doc :
                    doc[k].kind = "table" /\ doc[k].sect = "Items"
                    /\ doc[k].cols = num_columns
              /\ item_section[1] = LineColumns => num_columns = 4
        /\ ExcelItemsWritten =>
              Len(WsRows("ItemsHeader")[1].cells)
                 = Cardinality(PresentIndicators(item_section[1]))

\* The document-writer has inferred two columns from a line with one indicator.
C6_Witness ==
    /\ DocxItemsWritten
    /\ item_section # <<>>
    /\ HeaderKeywordIn(item_section[1])
    /\ Cardinality(PresentIndicators(item_section[1])) = 1
    /\ num_columns = 2

\* The label of a word of the ordered set.
LabelOf(w) ==
    IF w = header_indicators[1] THEN TxtDescription
    ELSE IF w = header_indicators[2] THEN TxtQty
    ELSE IF w = header_indicators[3] THEN TxtPrice
    ELSE TxtAmount

\* The n labels of a first line: the labels of the words of the ordered set
\* that occur in it, in that order, then "Column k" at each further place k.
ExpectedLabels(line, n) ==
    LET Hit(w) == Contains(Lower(line), w)
        hits == SelectSeq(header_indicators, Hit)
    IN  [k \in 1..n |->
            IF k <= Len(hits) THEN LabelOf(hits[k])
            ELSE column_label \o (IF k < 10 THEN <<48 + k>>
                                  ELSE <<48 + (k \div 10), 48 + (k % 10)>>)]

\* C7 as stated, of both header rows: the capitalized words of the ordered
\* set present in the first line, then "Column N" labels, as many labels as
\* the inferred column count.
C7_LabelsBothWriters ==
    (item_section # <<>> /\ HeaderKeywordIn(item_section[1])) =>
        LET want == ExpectedLabels(item_section[1], InferredColumns(item_section[1]))
        IN  /\ DocxItemsWritten => DocRows("ItemsHeader")[1].cells = want
            /\ ExcelItemsWritten => WsRows("ItemsHeader")[1].cells = want

\* C7, amended: in the document-writer the header labels are the capitalized
\* words of the ordered set present in the first line, then "Column N"
\* labels, and there are exactly num_columns of them.  The spreadsheet-writer
\* writes the indicators present as the list spells them (lower case, 'item',
\* 'quantity' and 'total' among them), without padding.
C7_Labels ==
    (item_section # <<>> /\ HeaderKeywordIn(item_section[1])) =>
        /\ DocxItemsWritten =>
              /\ Len(DocRows("ItemsHeader")) = 1
              /\ Len(DocRows("ItemsHeader")[1].cells) = num_columns
              /\ DocRows("ItemsHeader")[1].cells
                   = ExpectedLabels(item_section[1], num_columns)
              /\ item_section[1] = LineColumns =>
                    DocRows("ItemsHeader")[1].cells
                      = <<TxtDescription, TxtQty, TxtPrice, TxtAmount>>
        /\ ExcelItemsWritten =>
              LET Hit(w) == Contains(Lower(item_section[1]), w)
              IN  WsRows("ItemsHeader")[1].cells = SelectSeq(column_indicators, Hit)

\* The document-writer has padded the labels of a line with one word of the set.
C7_Witness ==
    /\ DocxItemsWritten
    /\ Len(DocRows("ItemsHeader")) = 1
    /\ DocRows("ItemsHeader")[1].cells = <<TxtPrice, TxtColumn2>>

\* The cells a data row line gives: with two numeric tokens or more, the
\* trimmed text before the first token (left out when empty), then the tokens
\* in order; else the line as one cell.
ExpectedParts(line) ==
    LET tokens == FindNumbers(line)
        before == Strip(BeforeFirstNumber(line))
    IN  IF Len(tokens) >= 2
        THEN (IF before = <<>> THEN tokens ELSE <<before>> \o tokens)
        ELSE <<line>>

\* The lines of item_section a writer's data rows stand for: its last ones.
DataLines(rows) ==
    SubSeq(item_section, Len(item_section) - Len(rows) + 1, Len(item_section))

\* Whether the cells of a row of the document-writer are the parts ps, as far
\* as the row reaches, and empty after them.
ShowsParts(cells, ps) ==
    \A i \in 1..Len(cells) : cells[i] = IF i <= Len(ps) THEN ps[i] ELSE <<>>

\* The data rows of the Word document and of the worksheet.
DocItemRows == DocRows("Items")
WsItemRows == WsRows("Items")

\* C8 as stated, of the data rows of both writers.
C8_CellsEveryDataRow ==
    /\ DocxItemsWritten =>
          LET rows == DocItemRows
              data == DataLines(rows)
          IN  \A k \in DOMAIN rows : ShowsParts(rows[k].cells, ExpectedParts(data[k]))
    /\ ExcelItemsWritten =>
          LET rows == WsItemRows
              data == DataLines(rows)
          IN  \A k \in DOMAIN rows : rows[k].cells = ExpectedParts(data[k])

\* C8, amended: the cells are as stated in the spreadsheet-writer, and in the
\* document-writer when the column count exceeds 1 (of which the row shows the
\* first num_columns); with column count 1 the document-writer writes every
\* data row line whole into its single cell, whatever its numeric tokens.
C8_Cells ==
    /\ DocxItemsWritten =>
          LET rows == DocItemRows
              data == DataLines(rows)
          IN  \A k \in DOMAIN rows :
                 /\ num_columns > 1 => ShowsParts(rows[k].cells, ExpectedParts(data[k]))
                 /\ num_columns = 1 => rows[k].cells = <<data[k]>>
                 /\ (num_columns >= 4 /\ data[k] = LineWidget) =>
                       rows[k].cells = <<TxtWidgetA, Txt3, Txt1050, Txt3150>>
    /\ ExcelItemsWritten =>
          LET rows == WsItemRows
              data == DataLines(rows)
          IN  \A k \in DOMAIN rows :
                 /\ rows[k].cells = ExpectedParts(data[k])
                 /\ data[k] = LineWidget =>
                       rows[k].cells = <<TxtWidgetA, Txt3, Txt1050, Txt3150>>
                 /\ data[k] = LineBillItem =>
                       rows[k].cells = <<TxtBillItem, Txt1000, Txt2>>
                 /\ data[k] = LineTotal => rows[k].cells = <<data[k]>>

\* The spreadsheet-writer has written the row of "Widget A 3 10.50 31.50"
\* under a header row; so had the document-writer, in four columns.
C8_Witness ==
    /\ ExcelItemsWritten
    /\ \E k \in DOMAIN ws :
          ws[k].sect = "Items" /\ ws[k].cells = <<TxtWidgetA, Txt3, Txt1050, Txt3150>>
    /\ \E k \in DOMAIN doc :
          doc[k].sect = "Items" /\ doc[k].cells = <<TxtWidgetA, Txt3, Txt1050, Txt3150>>

\* The cells of a row that hold text.
Written(cells) == {i \in DOMAIN cells : cells[i] # <<>>}

\* C9 as stated, of the item rows of both writers: no row has more written
\* cells than the column count of the first LineItems line.
C9_AtMostColumnCountBothWriters ==
    item_section # <<>> =>
        /\ DocxItemsWritten =>
              LET rows == DocItemRows
              IN  \A k \in DOMAIN rows :
                     Cardinality(Written(rows[k].cells)) <= InferredColumns(item_section[1])
        /\ ExcelItemsWritten =>
              LET rows == WsItemRows
              IN  \A k \in DOMAIN rows :
                     Cardinality(Written(rows[k].cells)) <= InferredColumns(item_section[1])

\* C9, amended: in the document-writer every row of the item table has exactly
\* num_columns cells, the column count of the first LineItems line, and the
\* parts of a line beyond them are dropped; the spreadsheet-writer writes every
\* part of a line, whatever the number of its header labels.
C9_ColumnCountApplied ==
    item_section # <<>> =>
        /\ DocxItemsWritten =>
              LET rows == DocItemRows
                  data == DataLines(rows)
              IN  /\ num_columns = InferredColumns(item_section[1])
                  /\ \A k \in DOMAIN rows :
                        LET ps == ExpectedParts(data[k])
                        IN  /\ Len(rows[k].cells) = num_columns
                            /\ num_columns > 1 =>
                                  Cardinality(Written(rows[k].cells))
                                     = (IF Len(ps) < num_columns THEN Len(ps)
                                        ELSE num_columns)
        /\ ExcelItemsWritten =>
              LET rows == WsItemRows
                  data == DataLines(rows)
              IN  \A k \in DOMAIN rows :
                     Len(rows[k].cells) = Len(ExpectedParts(data[k]))

\* The document-writer has dropped parts of a line: four parts, two columns.
C9_Witness ==
    /\ DocxItemsWritten
    /\ num_columns = 2
    /\ \E k \in DOMAIN DocItemRows :
          /\ DataLines(DocItemRows)[k] = LineWidget
          /\ DocItemRows[k].cells = <<TxtWidgetA, Txt3>>

\* C10, of both writers: when the first LineItems line holds no column-header
\* keyword, the column count is 1, there is no header row, and every line of
\* LineItems, the first one too, is a data row.
C10_NoHeaderCase ==
    (item_section # <<>> /\ ~HeaderKeywordIn(item_section[1])) =>
        /\ DocxItemsWritten =>
              /\ num_columns = 1
              /\ DocRows("ItemsHeader") = <<>>
              /\ Len(DocItemRows) = Len(item_section)
              /\ \A k \in DOMAIN item_section :
                    DocItemRows[k].cells = <<item_section[k]>>
        /\ ExcelItemsWritten =>
              /\ WsRows("ItemsHeader") = <<>>
              /\ Len(WsItemRows) = Len(item_section)

\* ------------------------------------ properties of the totals and the tail

TxtTotal == <<84, 111, 116, 97, 108>>   \* Total
Txt15000AED == <<49, 53, 48, 46, 48, 48, 32, 65, 69, 68>>   \* 150.00 AED
TxtInvoice == <<73, 110, 118, 111, 105, 99, 101>>   \* Invoice
TxtA7 == <<65, 58, 55>>   \* A:7

\* The running writer has just written its header rows, its totals rows.
HeaderWritten == is_financial /\ pc = "items"
DocxTotalsWritten == writer = "docx" /\ pc = "tail"
ExcelTotalsWritten == writer = "excel" /\ pc = "save" /\ is_financial

\* Whether the cells are the key and the value of a line that holds a colon:
\* two cells, the line split once at its first colon, both trimmed, no colon
\* in the key.
IsKeyValueOf(cells, line) ==
    /\ Len(cells) = 2
    /\ cells = SplitAtFirstColon(line)
    /\ \A i \in 1..Len(cells[1]) : cells[1][i] # COLON
    /\ line = LineTotal => cells = <<TxtTotal, Txt15000AED>>
    /\ line = LineInvoice => cells = <<TxtInvoice, TxtA7>>

\* Row k of the rows is the key and the value of line k, for every line of the
\* section that holds a colon.
RowsSplitAtColon(rows, section) ==
    /\ Len(rows) = Len(section)
    /\ \A k \in DOMAIN section :
          (\E i \in 1..Len(section[k]) : section[k][i] = COLON) =>
              IsKeyValueOf(rows[k].cells, section[k])

\* C11: in both writers every Header line and every Totals line that holds a
\* colon is split once at its first colon into key and value, both trimmed;
\* the key holds no colon, later colons stay in the value, and
\* "Total: 150.00 AED" in Totals gives ("Total", "150.00 AED").
C11_KeyValueSplit ==
    /\ (HeaderWritten /\ writer = "docx") =>
           RowsSplitAtColon(DocRows("Header"), header_section)
    /\ (HeaderWritten /\ writer = "excel") =>
           RowsSplitAtColon(WsRows("Header"), header_section)
    /\ (DocxTotalsWritten /\ total_section # <<>>) =>
           RowsSplitAtColon(DocRows("Totals"), total_section)
    /\ ExcelTotalsWritten => RowsSplitAtColon(WsRows("Totals"), total_section)

\* The spreadsheet-writer has written "Total: 150.00 AED" of Totals as two
\* cells and "Invoice: A:7", which holds two colons, as two cells of Totals.
C11_Witness ==
    /\ ExcelTotalsWritten
    /\ \E k \in DOMAIN total_section :
          /\ total_section[k] = LineTotal
          /\ WsRows("Totals")[k].cells = <<TxtTotal, Txt15000AED>>
    /\ \E k \in DOMAIN total_section :
          /\ total_section[k] = LineInvoice
          /\ WsRows("Totals")[k].cells = <<TxtInvoice, TxtA7>>

\* A character of an amount: a digit, a comma or a dot.
AmountChar(c) == IsDigit(c) \/ c = COMMA \/ c = DOT

\* An amount at places i..(a - 1) of the line, whitespace at a..(c - 1) and a
\* code of three capital letters at c..(c + 2).
CurrencyAt(line, i, a, c) ==
    /\ i < a /\ a <= c /\ c + 2 <= Len(line)
    /\ \A j \in i..(a - 1) : AmountChar(line[j])
    /\ \A j \in a..(c - 1) : IsSpace(line[j])
    /\ \A j \in c..(c + 2) : line[j] \in 65..90

CurrencyStarts(line) ==
    {i \in 1..Len(line) :
        \E a \in (i + 1)..(Len(line) + 1) : \E c \in a..Len(line) : CurrencyAt(line, i, a, c)}

\* The leftmost currency amount of a line that holds one: <<i, a, c>>.
LeftmostCurrency(line) ==
    LET i == CHOOSE i \in CurrencyStarts(line) : \A j \in CurrencyStarts(line) : i <= j
        a == CHOOSE a \in (i + 1)..(Len(line) + 1) :
                 \E c \in a..Len(line) : CurrencyAt(line, i, a, c)
        c == CHOOSE c \in a..Len(line) : CurrencyAt(line, i, a, c)
    IN  <<i, a, c>>

\* The line without its leftmost currency amount, trimmed.
DescriptionOf(line) ==
    LET m == LeftmostCurrency(line)
    IN  Strip(SubSeq(line, 1, m[1] - 1) \o SubSeq(line, m[3] + 3, Len(line)))

\* "amount currency": the amount, one space, the currency code.
AmountCurrencyOf(line) ==
    LET m == LeftmostCurrency(line)
    IN  SubSeq(line, m[1], m[2] - 1) \o <<32>> \o SubSeq(line, m[3], m[3] + 2)

\* The matched text as the line holds it: the amount, the whitespace after it
\* (none, or more than one character), the currency code.
MatchedTextOf(line) ==
    LET m == LeftmostCurrency(line)
    IN  SubSeq(line, m[1], m[3] + 2)

\* A Totals line the currency decomposition applies to.
IsCurrencyLine(line) ==
    /\ \A i \in 1..Len(line) : line[i] # COLON
    /\ CurrencyStarts(line) # {}

\* C12 as stated: both writers decompose a Totals line without colon that
\* holds a currency amount into the same two cells, the trimmed remainder of
\* the line and "amount currency".
C12_SameCellsBothWriters ==
    ExcelTotalsWritten =>
        LET docRows == DocRows("Totals")
            wsRows == WsRows("Totals")
        IN  \A k \in DOMAIN total_section :
               IsCurrencyLine(total_section[k]) =>
                   /\ wsRows[k].cells = <<DescriptionOf(total_section[k]),
                                          AmountCurrencyOf(total_section[k])>>
                   /\ docRows[k].cells = wsRows[k].cells

\* C12, amended: for a Totals line without colon that holds a currency amount,
\* the first cell is in both writers the trimmed remainder of the line.  The
\* second cell of the spreadsheet-writer is the amount, one space and the
\* currency code; the second cell of the document-writer is the matched text
\* as the line holds it, with the whitespace of the line between amount and
\* code.  The two agree when exactly one space separates them: "150.00 AED"
\* gives ("", "150.00 AED") in both.
C12_CurrencyCells ==
    ExcelTotalsWritten =>
        LET docRows == DocRows("Totals")
            wsRows == WsRows("Totals")
        IN  \A k \in DOMAIN total_section :
               IsCurrencyLine(total_section[k]) =>
                   /\ wsRows[k].cells = <<DescriptionOf(total_section[k]),
                                          AmountCurrencyOf(total_section[k])>>
                   /\ docRows[k].cells = <<DescriptionOf(total_section[k]),
                                           MatchedTextOf(total_section[k])>>
                   /\ total_section[k] = LineCurrency =>
                         /\ wsRows[k].cells = << <<>>, Txt15000AED >>
                         /\ docRows[k].cells = << <<>>, Txt15000AED >>

\* Both writers have written "150.00 AED" of Totals as ("", "150.00 AED"), and
\* a line whose amount and code no space separates.
C12_Witness ==
    /\ ExcelTotalsWritten
    /\ \E k \in DOMAIN total_section :
          /\ total_section[k] = LineCurrency
          /\ WsRows("Totals")[k].cells = << <<>>, Txt15000AED >>
          /\ DocRows("Totals")[k].cells = << <<>>, Txt15000AED >>
    /\ \E k \in DOMAIN total_section :
          /\ total_section[k] = LineTax
          /\ DocRows("Totals")[k].cells # WsRows("Totals")[k].cells

\* The document-writer has just captured the tail (and written it, if any).
DocxTailCaptured == writer = "docx" /\ pc = "save" /\ is_financial

\* The places of the original lines whose trimmed value equals a Totals line.
TotalsMatched ==
    {m \in DOMAIN lines : \E k \in DOMAIN total_section : Strip(lines[m]) = Strip(total_section[k])}

\* C13: the captured tail is exactly the lines of the original line sequence
\* strictly after the last line whose trimmed value equals a Totals line, so
\* it holds no line of Totals (nor any line before that last one), and it is
\* empty when Totals is empty.
C13_TailAfterLastTotalsLine ==
    DocxTailCaptured =>
        IF TotalsMatched = {}
        THEN remaining_text = <<>>
        ELSE LET last == CHOOSE m \in TotalsMatched : \A j \in TotalsMatched : j <= m
             IN  remaining_text = SubSeq(lines, last + 1, Len(lines))

\* The "Additional Information" headings of the Word document.
AdditionalHeadings ==
    {k \in DOMAIN doc : doc[k].kind = "heading" /\ doc[k].sect = "Additional Information"}

\* Whether a line holds a character that is no whitespace.
IsNonBlank(l) == \E i \in 1..Len(l) : ~IsSpace(l[i])

\* C14: the "Additional Information" section is in the document if and only
\* if the captured tail holds a line that is not blank; an empty tail and a
\* tail of blank lines give no such section.
C14_SectionIffNonBlankTail ==
    DocxTailCaptured =>
        /\ (AdditionalHeadings # {}) <=> (\E k \in DOMAIN remaining_text : IsNonBlank(remaining_text[k]))
        /\ Cardinality(AdditionalHeadings) <= 1
        /\ LET Is(e) == e.kind = "paragraph" /\ e.sect = "Additional"
           IN  \A k \in DOMAIN doc : Is(doc[k]) => AdditionalHeadings # {}

\* The captured tail holds a line, every line of it is blank, and the document
\* has no "Additional Information" section.
C14_Witness ==
    /\ DocxTailCaptured
    /\ remaining_text # <<>>
    /\ \A k \in DOMAIN remaining_text : ~IsNonBlank(remaining_text[k])
    /\ AdditionalHeadings = {}

\* ------------------------------------------ properties of the whole run

\* How often a line occurs in a sequence of lines.
Occurrences(ls, l) == Cardinality({k \in DOMAIN ls : ls[k] = l})

\* The lines of the text as written, before the preamble skip.
RawLines == SplitLines(text)

\* C15: in both writers the boilerplate line "Here is the text extracted from
\* the document:" is removed before classification exactly when it is the
\* first line of the text: then the classifier reads the lines after it and
\* the first line is in no section; a boilerplate line at another place is
\* read and goes into a section like any other line.
C15_PreambleStripped ==
    (is_financial /\ pc = "header") =>
        LET raw == RawLines
            rest == Tail(raw)
        IN  /\ raw[1] = LinePreamble => lines = rest
            /\ raw[1] # LinePreamble => lines = raw
            /\ Occurrences(header_section \o item_section \o total_section, LinePreamble) =
                  Occurrences(rest, LinePreamble)

\* The text begins with the boilerplate line and holds it once more; the
\* classifier has ended and the sections hold it once.
C15_Witness ==
    /\ is_financial
    /\ pc = "header"
    /\ writer = "excel"
    /\ RawLines[1] = LinePreamble
    /\ Occurrences(RawLines, LinePreamble) = 2
    /\ Occurrences(header_section \o item_section \o total_section, LinePreamble) = 1

\* The rows of the sections in the two outputs.
SectionRows ==
    {k \in DOMAIN doc : doc[k].kind = "row"}
    \cup {k \in DOMAIN ws : ws[k].sect \in {"Header", "ItemsHeader", "Items", "Totals"}}

\* The result of a run that has ended without failure; for the empty text the
\* three sections are empty and no row of a section is written.
EndedWithResult ==
    /\ pc = "done"
    /\ text = <<>> =>
          /\ header_section = <<>> /\ item_section = <<>> /\ total_section = <<>>
          /\ SectionRows = {}

\* A step of one of the writers can be taken.
CanStep ==
    \/ pc \in {"detect", "header", "items", "totals", "plain", "save"}
    \/ pc = "classify" /\ idx <= Len(lines)
    \/ pc = "tail" /\ writer = "docx"

\* What is left of the run: the writers to come, the places to come in the
\* running writer, the lines the classification loop has still to read.
PlaceRank(p) ==
    CASE p = "detect" -> 7
      [] p = "classify" -> 6
      [] p = "header" -> 5
      [] p = "items" -> 4
      [] p = "totals" -> 3
      [] p = "tail" -> 2
      [] p = "plain" -> 2
      [] p = "save" -> 1
      [] OTHER -> 0

LinesLeft(p, ls, i) == IF p = "classify" THEN Len(ls) + 1 - i ELSE 0

\* Every step leaves less of the run than there was before it.
Progress ==
    LET w == IF writer = "docx" THEN 1 ELSE 0
        wNext == IF writer' = "docx" THEN 1 ELSE 0
    IN  \/ wNext < w
        \/ wNext = w /\ PlaceRank(pc') < PlaceRank(pc)
        \/ /\ wNext = w /\ pc' = pc
           /\ LinesLeft(pc', lines', idx') < LinesLeft(pc, lines, idx)

\* C16: for every text, the empty text and the texts of blank lines among
\* them, the run of the two writers never is in an error state, can take a
\* step until it has ended, and every step brings it nearer its end; for the
\* empty text the three sections are empty and the writers write no section
\* row.
C16_Totality ==
    /\ [](/\ pc # "error"
          /\ (pc = "done" \/ CanStep)
          /\ (pc = "done" => EndedWithResult))
    /\ [][Progress]_vars

\* The run on the empty text has ended: no section, no section row, one empty
\* paragraph and one worksheet row.
C16_Witness ==
    /\ pc = "done"
    /\ text = <<>>
    /\ SectionRows = {}
    /\ Len(doc) = 1 /\ Len(ws) = 1

\* Both writers have ended on a financial text: the Word document and the
\* worksheet are complete.
BothWritten == pc = "done" /\ is_financial

\* The paragraphs of the tail in the Word document.
AdditionalParagraphs ==
    LET Is(e) == e.kind = "paragraph" /\ e.sect = "Additional"
    IN  SelectSeq(doc, Is)

\* The two outputs show the same Header lines and as many Totals lines.
SameSectionsWritten ==
    /\ Len(DocRows("Header")) = Len(WsRows("Header"))
    /\ \A k \in DOMAIN header_section :
          DocRows("Header")[k].cells = WsRows("Header")[k].cells
    /\ Len(DocRows("Totals")) = Len(WsRows("Totals"))
    /\ Len(DocRows("ItemsHeader")) + Len(DocRows("Items"))
          = Len(WsRows("ItemsHeader")) + Len(WsRows("Items"))

\* The two outputs treat the same LineItems lines as header and as data.
SameItemTable ==
    /\ Len(DocRows("ItemsHeader")) = Len(WsRows("ItemsHeader"))
    /\ Len(DocRows("Items")) = Len(WsRows("Items"))

\* The two outputs show the same tail.
SameTail ==
    /\ Len(AdditionalParagraphs) = Len(WsRows("Additional"))
    /\ \A k \in DOMAIN AdditionalParagraphs :
          AdditionalParagraphs[k].cells = WsRows("Additional")[k].cells

\* C17: for every text the two writers derive the same result: the same
\* Header, LineItems and Totals lines, the same header row and data rows of
\* the item table, and the same Additional Information tail.
C17_WriterEquivalence ==
    BothWritten => SameSectionsWritten /\ SameItemTable /\ SameTail

\* The flags and the sections after the classification loop has read the
\* first k of the lines ls, starting from the state of lines 170-176.
RECURSIVE ClassifierAfter(_, _)
ClassifierAfter(ls, k) ==
    IF k = 0
    THEN [in_items |-> FALSE, in_totals |-> FALSE,
          header |-> <<>>, item |-> <<>>, total |-> <<>>]
    ELSE LET s == ClassifierAfter(ls, k - 1)
             line == Strip(ls[k])
             c == Classify(line, s.in_items, s.in_totals)
         IN  IF line = <<>> THEN s
             ELSE [in_items |-> c.in_items, in_totals |-> c.in_totals,
                   header |-> IF c.section = "header" THEN Append(s.header, line) ELSE s.header,
                   item |-> IF c.section = "item" THEN Append(s.item, line) ELSE s.item,
                   total |-> IF c.section = "total" THEN Append(s.total, line) ELSE s.total]

\* The state of the running classifier.
ClassifierState ==
    [in_items |-> in_items, in_totals |-> in_totals,
     header |-> header_section, item |-> item_section, total |-> total_section]

IsItemIndicatorLine(l) == \E w \in item_pattern : Contains(Lower(l), w)

\* The places of the item-indicator lines among the non-blank lines read.
ItemIndicatorsRead == {k \in DOMAIN ReadNonBlank : IsItemIndicatorLine(ReadNonBlank[k])}

\* The non-blank lines read before the first item-indicator line: all of
\* them while no such line has been read.
HeaderPrefix ==
    IF ItemIndicatorsRead = {} THEN ReadNonBlank
    ELSE LET first == CHOOSE k \in ItemIndicatorsRead : \A j \in ItemIndicatorsRead : k <= j
         IN  SubSeq(ReadNonBlank, 1, first - 1)

\* C19: at every point of the loop of either writer in_items and in_totals
\* are not both true; neither is true before the first item-indicator line
\* and exactly one is true from it onward; and the Header section is the
\* non-blank lines before the first item-indicator line, none after it.
C19_FlagsAndHeaderPrefix ==
    (is_financial /\ pc \in {"classify", "header"}) =>
        /\ ~(in_items /\ in_totals)
        /\ (ItemIndicatorsRead # {}) <=> (in_items \/ in_totals)
        /\ header_section = HeaderPrefix

\* The loop has ended in state InTotals after an item-indicator line, with a
\* Header line before it and lines read after it.
C19_Witness ==
    /\ is_financial
    /\ pc = "header"
    /\ in_totals /\ ~in_items
    /\ header_section # <<>>
    /\ ItemIndicatorsRead # {}
    /\ Len(ReadNonBlank) > Len(header_section) + 1

====
